---- MODULE Spec2Model ----
(***************************************************************************)
(* The tsunami plugin manager (crates/tsunami/src/lib.rs): a PluginManager *)
(* owning a Vec<PluginType>, the dynamic loader load_plugin with its       *)
(* version handshake, load_static_plugin, plugins(), unload and Drop.      *)
(*                                                                         *)
(* Every operation of the manager is one action.  What an operation does   *)
(* inside (calls into the module, plugin callbacks, destructors) is        *)
(* recorded, in program order, in `trace`, the event list of the last      *)
(* operation; `unloadCalls` is the list of all on_unload calls so far.     *)
(***************************************************************************)
EXTENDS Integers, Sequences, FiniteSets, TLC

VARIABLES
    plugins,      \* PluginManager.plugins : Vec<PluginType>
    mgr,          \* "live" | "dropped" | "aborted"
    nextId,       \* number of load calls made so far; names the next library / plugin instance
    nUnloads,     \* number of explicit unload() calls made so far
    alive,        \* ids of the Box<dyn Plugin> values that exist
    loaded,       \* ids of the libloading::Library values that are open
    registered,   \* ids ever pushed onto plugins
    discarded,    \* ids of plugins whose on_load returned Err
    unloadCalls,  \* ids on which on_unload was invoked, in call order
    trace,        \* events of the last operation, in program order
    lastOp,       \* the last operation, its argument and what it returned
    errLibs,      \* ids of the libraries holding the code of the error value returned last
    threads       \* per thread: its borrow of the manager and what it does under it

vars == <<plugins, mgr, nextId, nUnloads, alive, loaded, registered, discarded,
          unloadCalls, trace, lastOp, errLibs, threads>>

\* ------------------------------------------------------------------ bounds
MaxLoads == 3
MaxUnloads == 2

\* --------------------------------------------------------------- constants
\* env!("RUSTC_VERSION") and env!("CARGO_PKG_VERSION") of the host build.
RUSTC_VERSION == "1.75.0"
PACKAGE_VERSION == "1.0.0"
RUSTC_VERSION_CSTR == RUSTC_VERSION
PACKAGE_VERSION_CSTR == PACKAGE_VERSION

\* ------------------------------------------------------------------ inputs
Names == {"test", "other"}
RustcVersions == {RUSTC_VERSION, "1.74.0"}
PackageVersions == {PACKAGE_VERSION, "0.9.0"}
SymbolNames == {"_rustc_version", "_package_version", "_plugin_create"}

Ok == [ok |-> TRUE, err |-> <<>>]
Err(e) == [ok |-> FALSE, err |-> e]

\* An implementation of trait Plugin: its name, what on_load returns, and
\* whether on_unload returns or panics (it has no other way to fail).
PluginImpls ==
    [name : Names,
     on_load : {Ok, Err(<<"plugin on_load error">>)},
     on_unload : {"return", "panic"}]

\* What load_plugin can find at a path: nothing loadable, or a library that
\* exports some of the three symbols.
NoLibrary == [exists |-> FALSE]
Libraries ==
    [exists : {TRUE},
     symbols : SUBSET SymbolNames,
     rustc : RustcVersions,
     package : PackageVersions,
     impl : PluginImpls]
\* A library built by declare_plugin! with the host's toolchain and package.
Conforming(l) ==
    /\ l.symbols = SymbolNames
    /\ l.rustc = RUSTC_VERSION
    /\ l.package = PACKAGE_VERSION
\* load_plugin constructs the plugin of a conforming library only, so one
\* implementation stands for the plugins of all the others.
DefaultImpl == [name |-> "test", on_load |-> Ok, on_unload |-> "return"]

declare_plugin_VersionsSwapped(impl) ==
    [exists |-> TRUE, symbols |-> SymbolNames,
     rustc |-> PACKAGE_VERSION_CSTR, package |-> RUSTC_VERSION_CSTR,
     impl |-> impl]

\* The library declare_plugin!(T, constructor) makes in a build that uses the
\* host's tsunami crate and toolchain: _package_version and _rustc_version
\* return $crate's constants, _plugin_create boxes constructor().
declare_plugin(impl) ==
    [exists |-> TRUE, symbols |-> SymbolNames,
     rustc |-> RUSTC_VERSION_CSTR, package |-> PACKAGE_VERSION_CSTR,
     impl |-> impl]

Files ==
    {NoLibrary} \cup
    {l \in Libraries : l.impl = DefaultImpl} \cup
    {declare_plugin(impl) : impl \in PluginImpls}

\* The threads that share the manager.
Threads == {"t1", "t2"}

\* A thread that holds no borrow of the manager.  `refs` are the plugins the
\* iterator of plugins() has yielded to the thread so far, `call` is the
\* Plugin method the thread is inside of and the plugin it is called on,
\* `arg` the argument of the load it is inside of.
Idle == [borrow |-> "none", op |-> "idle", refs |-> <<>>, call |-> <<>>, arg |-> <<>>]

\* ------------------------------------------------------------------ events
Ev(e, i) == [ev |-> e, id |-> i]

RECURSIVE EvIds(_, _)
\* The ids of the events named e in t, in order.
EvIds(t, e) ==
    IF t = <<>> THEN <<>>
    ELSE (IF Head(t).ev = e THEN <<Head(t).id>> ELSE <<>>) \o EvIds(Tail(t), e)

EvSet(t, e) == {t[i].id : i \in {j \in 1..Len(t) : t[j].ev = e}}

\* -------------------------------------------------------------- PluginType
Dynamic(p, lib) == [type |-> "Dynamic", plugin |-> p, library |-> lib]
Static(p) == [type |-> "Static", plugin |-> p]

plugin(h) == h.plugin
plugin_mut(h) == h.plugin

name(p) == p.name
on_load(p) == p.on_load

\* A plugin instance: an implementation at an address.
Instance(impl, id) ==
    [id |-> id, name |-> impl.name, on_load |-> impl.on_load,
     on_unload |-> impl.on_unload]

DropPluginType_LibraryFirst(h) ==
    IF h.type = "Dynamic"
    THEN <<Ev("drop library", h.library), Ev("drop plugin", h.plugin.id)>>
    ELSE <<Ev("drop plugin", h.plugin.id)>>

\* Dropping a PluginType drops its fields in declaration order.
DropPluginType(h) ==
    IF h.type = "Dynamic"
    THEN <<Ev("drop plugin", h.plugin.id), Ev("drop library", h.library)>>
    ELSE <<Ev("drop plugin", h.plugin.id)>>

RECURSIVE DropAll(_)
\* Dropping a slice of PluginType drops its elements in order.
DropAll(s) ==
    IF s = <<>> THEN <<>> ELSE DropPluginType(Head(s)) \o DropAll(Tail(s))

\* --------------------------------------------------------- PluginManager
new == <<>>

push_Front(self, h) == <<h>> \o self

\* Vec::push
push(self, h) == Append(self, h)

RustcVersionDiffers_Never(filename) == FALSE

\* rustc_version != RUSTC_VERSION_CSTR : CStr comparison, byte for byte
RustcVersionDiffers(filename) == filename.rustc # RUSTC_VERSION_CSTR

PackageVersionDiffers_Never(filename) == FALSE

PackageVersionDiffers_FromRustc(filename) ==
    filename.package # RUSTC_VERSION_CSTR

\* package_version != PACKAGE_VERSION_CSTR
PackageVersionDiffers(filename) == filename.package # PACKAGE_VERSION_CSTR

get_AlwaysOk(filename, symbol) == Ok

get_VersionSymbolsOnly(filename, symbol) ==
    IF symbol = "_plugin_create" \/ symbol \in filename.symbols
    THEN Ok
    ELSE Err(<<"libloading::Error", "get", symbol>>)

\* library.get(symbol) : Err when the library does not export the symbol
get(filename, symbol) ==
    IF symbol \in filename.symbols
    THEN Ok
    ELSE Err(<<"libloading::Error", "get", symbol>>)

\* An operation's outcome: the Vec afterwards, the events, the value returned.
Outcome(self, t, r) == [plugins |-> self, trace |-> t, result |-> r]

OnLoadStep_PushFirst(self, h) ==
    LET t == <<Ev("push", h.plugin.id), Ev("on_load", h.plugin.id)>>
    IN  Outcome(push(self, h), t, on_load(plugin_mut(h)))

OnLoadStep_IgnoreResult(self, h) ==
    Outcome(push(self, h),
            <<Ev("on_load", h.plugin.id), Ev("push", h.plugin.id)>>, Ok)

\* plugin.plugin_mut().on_load()?; self.plugins.push(plugin); Ok(())
\* On Err the local PluginType is dropped and the error returned as it is.
OnLoadStep(self, h) ==
    LET r == on_load(plugin_mut(h))
        t == <<Ev("on_load", h.plugin.id)>>
    IN  IF ~r.ok
        THEN Outcome(self, t \o DropPluginType(h), r)
        ELSE Outcome(push(self, h), t \o <<Ev("push", h.plugin.id)>>, Ok)

DropLibrary_Leak(id) == <<>>

\* The local `library` goes out of scope at an early return: Library's Drop
\* closes it.
DropLibrary(id) == <<Ev("drop library", id)>>

\* load_plugin once Library::new has returned the library, with `id` naming
\* the Library and the plugin instance this call creates.  Every early
\* return drops the local `library`.
load_plugin_opened(self, id, filename) ==
    LET t0 == <<Ev("Library::new", id)>>
        dropLibrary == DropLibrary(id)
    IN
    IF ~get(filename, "_rustc_version").ok
    THEN Outcome(self, t0 \o dropLibrary, get(filename, "_rustc_version"))
    ELSE
    LET t1 == t0 \o <<Ev("_rustc_version", id)>> IN
    IF RustcVersionDiffers(filename)
    THEN Outcome(self, t1 \o dropLibrary,
                 Err(<<"rustc version does not match. expected",
                       RUSTC_VERSION, "found", filename.rustc>>))
    ELSE
    IF ~get(filename, "_package_version").ok
    THEN Outcome(self, t1 \o dropLibrary, get(filename, "_package_version"))
    ELSE
    LET t2 == t1 \o <<Ev("_package_version", id)>> IN
    IF PackageVersionDiffers(filename)
    THEN Outcome(self, t2 \o dropLibrary,
                 Err(<<"package version does not match. expected",
                       PACKAGE_VERSION, "found", filename.package>>))
    ELSE
    IF ~get(filename, "_plugin_create").ok
    THEN Outcome(self, t2 \o dropLibrary, get(filename, "_plugin_create"))
    ELSE
    LET t3 == t2 \o <<Ev("_plugin_create", id)>>
        h == Dynamic(Instance(filename.impl, id), id)
        r == OnLoadStep(self, h)
    IN  Outcome(r.plugins, t3 \o r.trace, r.result)

load_plugin_OpenErrorSwallowed(self, id, filename) ==
    IF ~filename.exists
    THEN Outcome(self, <<>>, Ok)
    ELSE load_plugin_opened(self, id, filename)

\* load_plugin: Library::new(filename)? returns the error of a file that is
\* missing, unreadable or no loadable binary before anything else is done.
load_plugin(self, id, filename) ==
    IF ~filename.exists
    THEN Outcome(self, <<>>, Err(<<"libloading::Error", "Library::new">>))
    ELSE load_plugin_opened(self, id, filename)

load_static_plugin_NoOnLoad(self, id, impl) ==
    LET h == Static(Instance(impl, id))
    IN  Outcome(push(self, h), <<Ev("Box::new", id), Ev("push", id)>>, Ok)

load_static_plugin_NoPush(self, id, impl) ==
    LET h == Static(Instance(impl, id))
        r == on_load(plugin_mut(h))
    IN  Outcome(self, <<Ev("Box::new", id), Ev("on_load", id)>>
                      \o DropPluginType(h), r)

\* load_static_plugin, with `id` naming the boxed plugin.
load_static_plugin(self, id, impl) ==
    LET h == Static(Instance(impl, id))
        r == OnLoadStep(self, h)
    IN  Outcome(r.plugins, <<Ev("Box::new", id)>> \o r.trace, r.result)

plugins_ReverseOrder(self) ==
    [i \in 1..Len(self) |-> plugin(self[Len(self) + 1 - i])]

\* plugins() : self.plugins.iter().map(PluginType::plugin), what it yields
plugins_(self) == [i \in 1..Len(self) |-> plugin(self[i])]

RECURSIVE drain(_)
\* The loop of unload over self.plugins.drain(..): on_unload, then the loop
\* variable is dropped.  When on_unload panics the unwinding drops the loop
\* variable and then the Drain, which drops the elements not yet yielded.
drain(s) ==
    IF s = <<>> THEN [trace |-> <<>>, panicked |-> FALSE]
    ELSE
    LET h == Head(s)
        call == <<Ev("on_unload", plugin_mut(h).id)>>
    IN  IF plugin_mut(h).on_unload = "panic"
        THEN [trace |-> call \o DropPluginType(h) \o DropAll(Tail(s)),
              panicked |-> TRUE]
        ELSE LET rest == drain(Tail(s))
             IN  [trace |-> call \o DropPluginType(h) \o rest.trace,
                  panicked |-> rest.panicked]

unload_NoCallbacks(self) == Outcome(<<>>, DropAll(self), Ok)

unload_IterMut(self) ==
    Outcome(self, [i \in 1..Len(self) |-> Ev("on_unload", plugin(self[i]).id)], Ok)

RECURSIVE Reverse(_)
Reverse(s) == IF s = <<>> THEN <<>> ELSE Append(Reverse(Tail(s)), Head(s))

unload_PopLoop(self) ==
    LET d == drain(Reverse(self))
    IN  Outcome(<<>>, d.trace, IF d.panicked THEN Err(<<"panic">>) ELSE Ok)

\* unload: the Vec is empty afterwards, also when the loop unwinds.
unload(self) ==
    LET d == drain(self)
    IN  Outcome(<<>>, d.trace, IF d.panicked THEN Err(<<"panic">>) ELSE Ok)

RECURSIVE UntilPanic(_)
\* The handles up to and including the first whose on_unload panics.
UntilPanic(s) ==
    IF s = <<>> THEN <<>>
    ELSE IF plugin(Head(s)).on_unload = "panic" THEN <<Head(s)>>
    ELSE <<Head(s)>> \o UntilPanic(Tail(s))

drop_FieldsOnly(self, unwinding) ==
    [plugins |-> <<>>, trace |-> DropAll(self), result |-> Ok, mgr |-> "dropped"]

\* Drop for PluginManager: self.unload(), then the (empty) Vec is dropped.
\* A panic raised while the thread is already unwinding aborts the process
\* at the panic: nothing after it runs.
drop(self, unwinding) ==
    LET u == unload(self) IN
    IF unwinding /\ ~u.result.ok
    THEN LET done == UntilPanic(self)
             before == SubSeq(done, 1, Len(done) - 1)
         IN  [plugins |-> SubSeq(self, Len(done), Len(self)),
              trace |-> drain(before).trace
                        \o <<Ev("on_unload", plugin(done[Len(done)]).id)>>,
              result |-> Err(<<"abort">>), mgr |-> "aborted"]
    ELSE [plugins |-> u.plugins, trace |-> u.trace, result |-> u.result,
          mgr |-> "dropped"]

\* The libraries whose code an operation's result needs.  Error is
\* Box<dyn std::error::Error + Send + Sync>: the error on_load returns is
\* passed on by `?` as the box the plugin made, and the vtable and drop glue
\* of a box made by a Dynamic plugin are code of that plugin's library.  The
\* other errors of load_plugin are made by the host's own code.
ErrorCode(out) ==
    IF ~out.result.ok /\ EvSet(out.trace, "on_load") # {}
    THEN EvSet(out.trace, "on_load") \cap EvSet(out.trace, "Library::new")
    ELSE {}

\* ------------------------------------------------------------------ state
\* The effect of an operation's events on the bookkeeping variables.
Record(out) ==
    /\ trace' = out.trace
    /\ alive' = (alive \cup EvSet(out.trace, "_plugin_create")
                       \cup EvSet(out.trace, "Box::new"))
                \ EvSet(out.trace, "drop plugin")
    /\ loaded' = (loaded \cup EvSet(out.trace, "Library::new"))
                 \ EvSet(out.trace, "drop library")
    /\ registered' = registered \cup EvSet(out.trace, "push")
    /\ discarded' = discarded \cup
                    IF ~out.result.ok /\ EvSet(out.trace, "on_load") # {}
                    THEN EvSet(out.trace, "on_load") ELSE {}
    /\ unloadCalls' = unloadCalls \o EvIds(out.trace, "on_unload")

Init ==
    /\ plugins = <<>>
    /\ mgr = "live"
    /\ nextId = 0
    /\ nUnloads = 0
    /\ alive = {}
    /\ loaded = {}
    /\ registered = {}
    /\ discarded = {}
    /\ unloadCalls = <<>>
    /\ trace = <<>>
    /\ lastOp = [op |-> "new", arg |-> <<>>, result |-> Ok]
    /\ errLibs = {}
    /\ threads = [t \in Threads |-> Idle]

LoadPlugin ==
    /\ mgr = "live"
    /\ nextId < MaxLoads
    /\ \E filename \in Files :
         LET out == load_plugin(plugins, nextId, filename) IN
         /\ plugins' = out.plugins
         /\ Record(out)
         /\ lastOp' = [op |-> "load_plugin", arg |-> filename,
                       result |-> out.result]
         /\ errLibs' = ErrorCode(out)
    /\ nextId' = nextId + 1
    /\ UNCHANGED <<mgr, nUnloads, threads>>

LoadStaticPlugin ==
    /\ mgr = "live"
    /\ nextId < MaxLoads
    /\ \E impl \in PluginImpls :
         LET out == load_static_plugin(plugins, nextId, impl) IN
         /\ plugins' = out.plugins
         /\ Record(out)
         /\ lastOp' = [op |-> "load_static_plugin", arg |-> impl,
                       result |-> out.result]
         /\ errLibs' = ErrorCode(out)
    /\ nextId' = nextId + 1
    /\ UNCHANGED <<mgr, nUnloads, threads>>

Plugins ==
    /\ mgr = "live"
    /\ lastOp' = [op |-> "plugins", arg |-> <<>>,
                  result |-> [i \in 1..Len(plugins) |-> name(plugins_(plugins)[i])]]
    /\ trace' = <<>>
    /\ errLibs' = {}
    /\ UNCHANGED <<plugins, mgr, nextId, nUnloads, alive, loaded, registered,
                   discarded, unloadCalls, threads>>

Unload ==
    /\ mgr = "live"
    /\ nUnloads < MaxUnloads
    /\ LET out == unload(plugins) IN
         /\ plugins' = out.plugins
         /\ Record(out)
         /\ lastOp' = [op |-> "unload", arg |-> <<>>, result |-> out.result]
         /\ errLibs' = ErrorCode(out)
    /\ nUnloads' = nUnloads + 1
    /\ UNCHANGED <<mgr, nextId, threads>>

DropManager ==
    /\ mgr = "live"
    /\ \E unwinding \in BOOLEAN :
         LET out == drop(plugins, unwinding) IN
         /\ plugins' = out.plugins
         /\ Record(out)
         /\ mgr' = out.mgr
         /\ lastOp' = [op |-> "drop", arg |-> unwinding, result |-> out.result]
         /\ errLibs' = ErrorCode(out)
    /\ UNCHANGED <<nextId, nUnloads, threads>>

Next ==
    \/ LoadPlugin
    \/ LoadStaticPlugin
    \/ Plugins
    \/ Unload
    \/ DropManager

Spec == Init /\ [][Next]_vars

\* ------------------------------------------------- threads and borrows
\* The manager shared by several threads.  A method is entered under the
\* borrow its receiver asks for and the borrow ends when the method has
\* returned and what it returned (the iterator of plugins() and the
\* references it yields) is gone.  What happens inside a method is a step of
\* its own, so the steps of different threads interleave wherever the
\* borrows let them.

\* The plugins the threads load: their on_load succeeds.
ConcImpls == {impl \in PluginImpls : impl.name = "test" /\ impl.on_load.ok}

Exclusive_AsShared(t) == \A u \in Threads \ {t} : threads[u].borrow # "mut"

\* Receiver `&mut self`: no other thread holds a borrow of the manager.
Exclusive(t) == \A u \in Threads \ {t} : threads[u].borrow = "none"

\* Receiver `&self`: no other thread holds a mutable borrow of the manager.
Shared(t) == \A u \in Threads \ {t} : threads[u].borrow # "mut"

Enter(t, b, o, a) ==
    threads' = [threads EXCEPT ![t] = [Idle EXCEPT !.borrow = b, !.op = o, !.arg = a]]

Leave(t) == threads' = [threads EXCEPT ![t] = Idle]

\* plugins(&self): the thread gets the iterator.
BeginPlugins(t) ==
    /\ mgr = "live"
    /\ threads[t] = Idle
    /\ Shared(t)
    /\ Enter(t, "shared", "plugins", <<>>)
    /\ UNCHANGED <<plugins, mgr, nextId, nUnloads, alive, loaded, registered,
                   discarded, unloadCalls, trace, lastOp, errLibs>>

\* Iterator::next: the reference to the next plugin, which the thread keeps.
NextPlugin(t) ==
    /\ threads[t].op = "plugins"
    /\ threads[t].call = <<>>
    /\ Len(threads[t].refs) < Len(plugins)
    /\ threads' = [threads EXCEPT ![t].refs =
                      Append(@, plugins_(plugins)[Len(@) + 1].id)]
    /\ UNCHANGED <<plugins, mgr, nextId, nUnloads, alive, loaded, registered,
                   discarded, unloadCalls, trace, lastOp, errLibs>>

\* The thread calls trigger(&self, val) or name(&self) through a reference
\* the iterator gave it.
BeginCall(t) ==
    /\ threads[t].op = "plugins"
    /\ threads[t].call = <<>>
    /\ \E i \in 1..Len(threads[t].refs), method \in {"trigger", "name"} :
         threads' = [threads EXCEPT ![t].call = <<method, threads[t].refs[i]>>]
    /\ UNCHANGED <<plugins, mgr, nextId, nUnloads, alive, loaded, registered,
                   discarded, unloadCalls, trace, lastOp, errLibs>>

\* The call returns.
EndCall(t) ==
    /\ threads[t].op = "plugins"
    /\ threads[t].call # <<>>
    /\ threads' = [threads EXCEPT ![t].call = <<>>]
    /\ UNCHANGED <<plugins, mgr, nextId, nUnloads, alive, loaded, registered,
                   discarded, unloadCalls, trace, lastOp, errLibs>>

\* The iterator and the references it yielded go out of scope.
EndPlugins(t) ==
    /\ threads[t].op = "plugins"
    /\ threads[t].call = <<>>
    /\ Leave(t)
    /\ UNCHANGED <<plugins, mgr, nextId, nUnloads, alive, loaded, registered,
                   discarded, unloadCalls, trace, lastOp, errLibs>>

\* load_plugin(&mut self, filename) is entered.
BeginLoadPlugin(t) ==
    /\ mgr = "live"
    /\ threads[t] = Idle
    /\ Exclusive(t)
    /\ nextId < MaxLoads
    /\ \E impl \in ConcImpls : Enter(t, "mut", "load_plugin", declare_plugin(impl))
    /\ UNCHANGED <<plugins, mgr, nextId, nUnloads, alive, loaded, registered,
                   discarded, unloadCalls, trace, lastOp, errLibs>>

\* load_static_plugin(&mut self, plugin) is entered.
BeginLoadStatic(t) ==
    /\ mgr = "live"
    /\ threads[t] = Idle
    /\ Exclusive(t)
    /\ nextId < MaxLoads
    /\ \E impl \in ConcImpls : Enter(t, "mut", "load_static_plugin", impl)
    /\ UNCHANGED <<plugins, mgr, nextId, nUnloads, alive, loaded, registered,
                   discarded, unloadCalls, trace, lastOp, errLibs>>

\* The load runs and returns.
EndLoad(t) ==
    /\ threads[t].op \in {"load_plugin", "load_static_plugin"}
    /\ LET out == IF threads[t].op = "load_plugin"
                  THEN load_plugin(plugins, nextId, threads[t].arg)
                  ELSE load_static_plugin(plugins, nextId, threads[t].arg)
       IN  /\ plugins' = out.plugins
           /\ Record(out)
           /\ lastOp' = [op |-> threads[t].op, arg |-> threads[t].arg,
                         result |-> out.result]
           /\ errLibs' = ErrorCode(out)
    /\ nextId' = nextId + 1
    /\ Leave(t)
    /\ UNCHANGED <<mgr, nUnloads>>

\* unload(&mut self) is entered; `plugins` is what its Drain has yet to yield.
BeginUnload(t) ==
    /\ mgr = "live"
    /\ threads[t] = Idle
    /\ Exclusive(t)
    /\ nUnloads < MaxUnloads
    /\ Enter(t, "mut", "unload", <<>>)
    /\ trace' = <<>>
    /\ UNCHANGED <<plugins, mgr, nextId, nUnloads, alive, loaded, registered,
                   discarded, unloadCalls, lastOp, errLibs>>

\* The loop of unload takes the next handle and calls on_unload on its plugin.
UnloadCall(t) ==
    /\ threads[t].op = "unload"
    /\ threads[t].call = <<>>
    /\ plugins # <<>>
    /\ LET id == plugin_mut(Head(plugins)).id IN
         /\ threads' = [threads EXCEPT ![t].call = <<"on_unload", id>>]
         /\ unloadCalls' = Append(unloadCalls, id)
         /\ trace' = Append(trace, Ev("on_unload", id))
    /\ UNCHANGED <<plugins, mgr, nextId, nUnloads, alive, loaded, registered,
                   discarded, lastOp, errLibs>>

\* on_unload returns and the handle is dropped, or it panics and the
\* unwinding drops the handle and all that the Drain has not yielded.
UnloadDestroy(t) ==
    /\ threads[t].op = "unload"
    /\ threads[t].call # <<>>
    /\ LET panics == plugin_mut(Head(plugins)).on_unload = "panic"
           events == IF panics THEN DropAll(plugins) ELSE DropPluginType(Head(plugins))
       IN  /\ plugins' = IF panics THEN <<>> ELSE Tail(plugins)
           /\ alive' = alive \ EvSet(events, "drop plugin")
           /\ loaded' = loaded \ EvSet(events, "drop library")
           /\ trace' = trace \o events
           /\ threads' = [threads EXCEPT ![t].call = <<>>,
                                         ![t].arg = IF panics THEN <<"panic">> ELSE @]
    /\ UNCHANGED <<mgr, nextId, nUnloads, registered, discarded, unloadCalls,
                   lastOp, errLibs>>

\* unload returns, or unwinds to its caller.
EndUnload(t) ==
    /\ threads[t].op = "unload"
    /\ threads[t].call = <<>>
    /\ plugins = <<>>
    /\ lastOp' = [op |-> "unload", arg |-> <<>>,
                  result |-> IF threads[t].arg = <<"panic">>
                             THEN Err(<<"panic">>) ELSE Ok]
    /\ errLibs' = {}
    /\ nUnloads' = nUnloads + 1
    /\ Leave(t)
    /\ UNCHANGED <<plugins, mgr, nextId, alive, loaded, registered, discarded,
                   unloadCalls, trace>>

NextConc ==
    \E t \in Threads :
        \/ BeginPlugins(t)
        \/ NextPlugin(t)
        \/ BeginCall(t)
        \/ EndCall(t)
        \/ EndPlugins(t)
        \/ BeginLoadPlugin(t)
        \/ BeginLoadStatic(t)
        \/ EndLoad(t)
        \/ BeginUnload(t)
        \/ UnloadCall(t)
        \/ UnloadDestroy(t)
        \/ EndUnload(t)

SpecConc == Init /\ [][NextConc]_vars

\* ================================================================ claims
Ids(s) == [i \in 1..Len(s) |-> plugin(s[i]).id]
Range(f) == {f[i] : i \in DOMAIN f}
Count(f, x) == Cardinality({i \in DOMAIN f : f[i] = x})

\* The step is a call of load_plugin / load_static_plugin / unload / drop.
LoadPluginStep == nextId' = nextId + 1 /\ lastOp'.op = "load_plugin"
LoadStaticStep == nextId' = nextId + 1 /\ lastOp'.op = "load_static_plugin"
UnloadStep == nUnloads' = nUnloads + 1
DropStep == mgr = "live" /\ mgr' # "live"

\* C1: a Dynamic handle's library is loaded whenever its plugin value
\* exists: for every registered Dynamic handle both exist, and whenever an
\* operation releases a library whose plugin had been constructed, it has
\* dropped that plugin earlier in the same operation.
C1_LibraryOutlivesPlugin ==
    /\ \A i \in 1..Len(plugins) :
         plugins[i].type = "Dynamic" /\ plugin(plugins[i]).id \in alive
            => plugins[i].library \in loaded
    /\ \A i \in 1..Len(trace) :
         trace[i].ev = "drop library"
         /\ (\/ trace[i].id \in registered
             \/ \E j \in 1..(i - 1) : trace[j] = Ev("_plugin_create", trace[i].id))
            => \E j \in 1..(i - 1) : trace[j] = Ev("drop plugin", trace[i].id)

\* An unload or drop has just released the library of a registered Dynamic
\* plugin, and a failed on_load has just released one.
C1_Witness ==
    /\ lastOp.op \in {"unload", "drop"}
    /\ \E i \in 1..Len(trace) :
         trace[i].ev = "drop library" /\ trace[i].id \in registered
    /\ discarded # {}

\* C2: a library whose _rustc_version string differs from RUSTC_VERSION makes
\* load_plugin return the rustc mismatch error naming RUSTC_VERSION and the
\* string found, without calling _package_version or _plugin_create,
\* without constructing a plugin and without changing the registry.
C2_RustcMismatchRejected ==
    [][(/\ LoadPluginStep
        /\ lastOp'.arg.exists
        /\ "_rustc_version" \in lastOp'.arg.symbols
        /\ lastOp'.arg.rustc # RUSTC_VERSION)
       => /\ lastOp'.result =
               Err(<<"rustc version does not match. expected", RUSTC_VERSION,
                     "found", lastOp'.arg.rustc>>)
          /\ EvSet(trace', "_package_version") = {}
          /\ EvSet(trace', "_plugin_create") = {}
          /\ alive' = alive
          /\ plugins' = plugins]_vars

\* Host ("1.75.0", "1.0.0"): A was loaded, B ("1.74.0", "1.0.0") has just
\* been rejected, the registry holds A alone.
C2_Witness ==
    /\ lastOp.op = "load_plugin"
    /\ lastOp.arg.exists
    /\ lastOp.arg.symbols = SymbolNames
    /\ lastOp.arg.rustc = "1.74.0"
    /\ lastOp.arg.package = "1.0.0"
    /\ ~lastOp.result.ok
    /\ Len(plugins) = 1
    /\ plugins[1].type = "Dynamic"

\* C3: a library whose rustc version matches and whose _package_version
\* string differs from PACKAGE_VERSION makes load_plugin return the package
\* mismatch error, without calling _plugin_create, the registry unchanged.
C3_PackageMismatchRejected ==
    [][(/\ LoadPluginStep
        /\ lastOp'.arg.exists
        /\ {"_rustc_version", "_package_version"} \subseteq lastOp'.arg.symbols
        /\ lastOp'.arg.rustc = RUSTC_VERSION
        /\ lastOp'.arg.package # PACKAGE_VERSION)
       => /\ lastOp'.result =
               Err(<<"package version does not match. expected",
                     PACKAGE_VERSION, "found", lastOp'.arg.package>>)
          /\ EvSet(trace', "_plugin_create") = {}
          /\ Len(plugins') = Len(plugins)
          /\ plugins' = plugins]_vars

\* A package mismatch has just been rejected with a plugin registered.
C3_Witness ==
    /\ lastOp.op = "load_plugin"
    /\ lastOp.arg.exists
    /\ lastOp.arg.symbols = SymbolNames
    /\ lastOp.arg.rustc = RUSTC_VERSION
    /\ lastOp.arg.package = "0.9.0"
    /\ ~lastOp.result.ok
    /\ EvSet(trace, "_package_version") # {}
    /\ Len(plugins) = 1

\* C4: for a library with the three symbols, the host's two versions and a
\* succeeding on_load, load_plugin returns Ok and the registry is the old
\* one with one Dynamic handle for the new plugin appended at its end.
C4_ConformingLibraryRegistered ==
    [][(/\ LoadPluginStep
        /\ lastOp'.arg.exists
        /\ Conforming(lastOp'.arg)
        /\ lastOp'.arg.impl.on_load.ok)
       => /\ lastOp'.result = Ok
          /\ Len(plugins') = Len(plugins) + 1
          /\ SubSeq(plugins', 1, Len(plugins)) = plugins
          /\ plugins'[Len(plugins')] =
               Dynamic(Instance(lastOp'.arg.impl, nextId), nextId)]_vars

\* A conforming library has just been registered after another plugin.
C4_Witness ==
    /\ lastOp.op = "load_plugin"
    /\ lastOp.result.ok
    /\ Len(plugins) >= 2
    /\ plugins[Len(plugins)].type = "Dynamic"
    /\ plugins[Len(plugins)].library = nextId - 1

\* C5: a library that exports neither version symbol makes load_plugin
\* return the symbol lookup error for _rustc_version; no plugin is
\* constructed and the registry is unchanged.
C5_MissingSymbolsRejected ==
    [][(/\ LoadPluginStep
        /\ lastOp'.arg.exists
        /\ lastOp'.arg.symbols \cap {"_rustc_version", "_package_version"} = {})
       => /\ lastOp'.result = Err(<<"libloading::Error", "get", "_rustc_version">>)
          /\ EvSet(trace', "_plugin_create") = {}
          /\ alive' = alive
          /\ plugins' = plugins]_vars

\* A library without any of the symbols has just been rejected and closed.
C5_Witness ==
    /\ lastOp.op = "load_plugin"
    /\ lastOp.arg.exists
    /\ lastOp.arg.symbols = {}
    /\ ~lastOp.result.ok
    /\ trace = <<Ev("Library::new", nextId - 1), Ev("drop library", nextId - 1)>>
    /\ plugins # <<>>

\* C6: unload invokes on_unload exactly once on every registered plugin, in
\* the order of the registry, and leaves the registry empty.
C6_UnloadCallsEachInOrder ==
    [][UnloadStep
       => /\ EvIds(trace', "on_unload") = Ids(plugins)
          /\ plugins' = <<>>]_vars

\* C7: dropping the manager invokes on_unload on the same plugins, in the
\* same order, as a call of unload on the same registry.
C7_DropCallsAsUnload ==
    [][DropStep
       => EvIds(trace', "on_unload") = EvIds(unload(plugins).trace, "on_unload")]_vars

\* A manager holding two plugins or more has just been dropped.
C7_Witness ==
    /\ lastOp.op = "drop"
    /\ Len(EvIds(trace, "on_unload")) >= 2

\* C8: on_unload is never invoked twice on a registered plugin, and once the
\* manager is gone it has been invoked on every plugin ever registered.
C8_OnUnloadExactlyOnce ==
    /\ \A id \in registered : Count(unloadCalls, id) <= 1
    /\ mgr # "live" => \A id \in registered : Count(unloadCalls, id) = 1

SomeLoadFailed == nextId > Cardinality(registered)

\* C11: a failed load_plugin or load_static_plugin leaves the registry as it
\* was; after a failure a load of a valid plugin still succeeds and appends
\* it, and a later unload or drop still invokes on_unload on every
\* registered plugin.
C11_FailedLoadHarmless ==
    [][/\ (LoadPluginStep \/ LoadStaticStep) /\ ~lastOp'.result.ok
            => plugins' = plugins
       /\ (/\ SomeLoadFailed
           /\ LoadPluginStep
           /\ lastOp'.arg.exists
           /\ Conforming(lastOp'.arg)
           /\ lastOp'.arg.impl.on_load.ok)
            => /\ lastOp'.result.ok
               /\ plugins' = Append(plugins,
                      Dynamic(Instance(lastOp'.arg.impl, nextId), nextId))
       /\ SomeLoadFailed /\ LoadStaticStep /\ lastOp'.arg.on_load.ok
            => /\ lastOp'.result.ok
               /\ plugins' = Append(plugins, Static(Instance(lastOp'.arg, nextId)))
       /\ SomeLoadFailed /\ (UnloadStep \/ DropStep)
            => EvIds(trace', "on_unload") = Ids(plugins)]_vars

\* C12: when on_unload of a registered plugin panics during unload, unload
\* still returns normally, on_unload is invoked on every registered plugin
\* and the registry ends empty.
C12_OnUnloadFailureSwallowed ==
    [][(UnloadStep /\ \E i \in 1..Len(plugins) : plugin(plugins[i]).on_unload = "panic")
       => /\ lastOp'.result.ok
          /\ EvIds(trace', "on_unload") = Ids(plugins)
          /\ plugins' = <<>>]_vars

\* C13: a drop of the manager, unwinding or not, invokes on_unload on every
\* registered plugin, drops every handle plugin first and leaves no plugin
\* alive and no library of a handle loaded.
C13_DropDrainsAll ==
    [][DropStep
       => /\ EvIds(trace', "on_unload") = Ids(plugins)
          /\ EvIds(trace', "drop plugin") = Ids(plugins)
          /\ \A i \in 1..Len(plugins) :
               /\ plugin(plugins[i]).id \notin alive'
               /\ plugins[i].type = "Dynamic" => plugins[i].library \notin loaded'
          /\ \A i \in 1..Len(trace') :
               trace'[i].ev = "drop library"
                  => \E j \in 1..(i - 1) : trace'[j] = Ev("drop plugin", trace'[i].id)]_vars

\* C14: plugins() yields the plugins registered and not yet drained, each
\* once, in load order (ids grow with the load calls), changes nothing, and
\* yields the same again when called again with no operation in between.
C14_PluginsYieldsRegistryInOrder ==
    [][lastOp'.op = "plugins"
       => LET ys == plugins_(plugins) IN
          /\ Len(lastOp'.result) = Len(ys)
          /\ \A i \in 1..Len(ys) : lastOp'.result[i] = name(ys[i])
          /\ {ys[i].id : i \in 1..Len(ys)} = registered \cap alive
          /\ \A i, j \in 1..Len(ys) : i < j => ys[i].id < ys[j].id
          /\ UNCHANGED <<plugins, alive, loaded, registered, unloadCalls>>
          /\ lastOp.op = "plugins" => lastOp'.result = lastOp.result]_vars

\* plugins() has yielded two plugins registered after an earlier one was
\* drained.
C14_Witness ==
    /\ lastOp.op = "plugins"
    /\ Len(lastOp.result) = 2
    /\ Cardinality(registered) = 3

\* C15: an operation that constructs a plugin calls on_load on it exactly
\* once, after constructing it and before pushing it; on_load is called on
\* no other plugin, so never on one already registered; and every plugin in
\* the registry is one whose on_load returned Ok.
C15_OnLoadOnceBeforeVisible ==
    /\ \A id \in EvSet(trace, "_plugin_create") \cup EvSet(trace, "Box::new") :
         Count(EvIds(trace, "on_load"), id) = 1
    /\ \A i \in 1..Len(trace) :
         trace[i].ev = "on_load"
            => /\ \E j \in 1..(i - 1) :
                    /\ trace[j].ev \in {"_plugin_create", "Box::new"}
                    /\ trace[j].id = trace[i].id
               /\ \A j \in 1..(i - 1) : trace[j] # Ev("push", trace[i].id)
    /\ \A i \in 1..Len(trace) :
         trace[i].ev = "push"
            => \E j \in 1..(i - 1) : trace[j] = Ev("on_load", trace[i].id)
    /\ \A i \in 1..Len(plugins) : on_load(plugin(plugins[i])).ok

\* A plugin has just been registered after its on_load, next to an older
\* one, and an on_load has failed before.
C15_Witness ==
    /\ EvSet(trace, "on_load") = {nextId - 1}
    /\ EvSet(trace, "push") = {nextId - 1}
    /\ Len(plugins) = 2
    /\ discarded # {}

\* The state of the handle of the plugin that load call `id` constructs.
HandleState(id) ==
    IF id \in discarded THEN "Discarded"
    ELSE IF id \notin registered THEN "Unregistered"
    ELSE IF id \in Range(Ids(plugins)) THEN "Loaded"
    ELSE "Unloaded"

\* C16: a handle goes from Unregistered to Loaded only in a load whose
\* on_load returned Ok, from Loaded to Unloaded only in an unload or a drop,
\* from Unregistered to Discarded when its on_load fails, and makes no other
\* transition; a Discarded handle is never in the registry.
C16_HandleStateMachine ==
    [][/\ \A id \in 0..nextId :
            \/ HandleState(id)' = HandleState(id)
            \/ /\ HandleState(id) = "Unregistered"
               /\ HandleState(id)' = "Loaded"
               /\ LoadPluginStep \/ LoadStaticStep
               /\ id \in EvSet(trace', "on_load")
               /\ lastOp'.result.ok
            \/ /\ HandleState(id) = "Loaded"
               /\ HandleState(id)' = "Unloaded"
               /\ UnloadStep \/ DropStep
            \/ /\ HandleState(id) = "Unregistered"
               /\ HandleState(id)' = "Discarded"
               /\ LoadPluginStep \/ LoadStaticStep
               /\ id \in EvSet(trace', "on_load")
               /\ ~lastOp'.result.ok
       /\ discarded' \cap Range(Ids(plugins')) = {}]_vars

\* One handle is Unloaded, one Discarded and one Loaded.
C16_Witness ==
    /\ HandleState(0) = "Unloaded"
    /\ HandleState(1) = "Discarded"
    /\ HandleState(2) = "Loaded"

\* C17: for a library that exports the three symbols, load_plugin calls
\* _plugin_create exactly when its rustc string equals RUSTC_VERSION and its
\* package string equals PACKAGE_VERSION; when both differ the error is the
\* rustc mismatch, the check made first.
C17_CreateIffBothVersionsEqual ==
    [][(/\ LoadPluginStep
        /\ lastOp'.arg.exists
        /\ lastOp'.arg.symbols = SymbolNames)
       => /\ EvSet(trace', "_plugin_create") # {}
               <=> /\ lastOp'.arg.rustc = RUSTC_VERSION
                   /\ lastOp'.arg.package = PACKAGE_VERSION
          /\ (/\ lastOp'.arg.rustc # RUSTC_VERSION
              /\ lastOp'.arg.package # PACKAGE_VERSION)
               => lastOp'.result =
                    Err(<<"rustc version does not match. expected",
                          RUSTC_VERSION, "found", lastOp'.arg.rustc>>)]_vars

\* A library whose two versions both differ has just been rejected for its
\* rustc version, without its package version being asked.
C17_Witness ==
    /\ lastOp.op = "load_plugin"
    /\ lastOp.arg.exists
    /\ lastOp.arg.symbols = SymbolNames
    /\ lastOp.arg.rustc # RUSTC_VERSION
    /\ lastOp.arg.package # PACKAGE_VERSION
    /\ lastOp.result.err[1] = "rustc version does not match. expected"
    /\ EvSet(trace, "_package_version") = {}

\* C18: load_static_plugin opens no library and calls no version symbol; it
\* boxes the plugin, calls on_load and returns what on_load returned; it
\* appends a Static handle of the plugin when that is Ok and leaves the
\* registry unchanged otherwise.
C18_StaticLoadNoHandshake ==
    [][LoadStaticStep
       => /\ \A i \in 1..Len(trace') :
               trace'[i].ev \in {"Box::new", "on_load", "push", "drop plugin"}
          /\ loaded' = loaded
          /\ lastOp'.result = on_load(lastOp'.arg)
          /\ plugins' = IF on_load(lastOp'.arg).ok
                        THEN Append(plugins, Static(Instance(lastOp'.arg, nextId)))
                        ELSE plugins]_vars

\* A static plugin's on_load has just failed, after a static plugin and a
\* dynamic one were registered.
C18_Witness ==
    /\ lastOp.op = "load_static_plugin"
    /\ ~lastOp.result.ok
    /\ Len(plugins) = 2
    /\ plugins[1].type = "Static"
    /\ plugins[2].type = "Dynamic"

\* C19: when no loadable library is at the path, load_plugin returns the
\* error of Library::new; it resolves and calls no symbol, constructs no
\* plugin, opens no library and leaves the registry unchanged.
C19_OpenFailureRejected ==
    [][(LoadPluginStep /\ ~lastOp'.arg.exists)
       => /\ lastOp'.result = Err(<<"libloading::Error", "Library::new">>)
          /\ trace' = <<>>
          /\ alive' = alive
          /\ loaded' = loaded
          /\ plugins' = plugins]_vars

\* A load of a missing file has just failed with a plugin registered.
C19_Witness ==
    /\ lastOp.op = "load_plugin"
    /\ lastOp.arg = NoLibrary
    /\ ~lastOp.result.ok
    /\ plugins # <<>>

\* The libraries declare_plugin! makes.
Declared == {declare_plugin(impl) : impl \in PluginImpls}

\* C20: a library made by declare_plugin! reports RUSTC_VERSION and
\* PACKAGE_VERSION, so load_plugin calls its three symbols and fails only if
\* the plugin's on_load does; the plugin it registers is a new instance
\* whose name is that of the declared type.
C20_DeclaredPluginPassesHandshake ==
    [][(LoadPluginStep /\ lastOp'.arg \in Declared)
       => /\ lastOp'.arg.rustc = RUSTC_VERSION
          /\ lastOp'.arg.package = PACKAGE_VERSION
          /\ EvIds(SubSeq(trace', 1, 4), "Library::new") = <<nextId>>
          /\ [i \in 1..3 |-> trace'[i + 1]] =
               <<Ev("_rustc_version", nextId), Ev("_package_version", nextId),
                 Ev("_plugin_create", nextId)>>
          /\ lastOp'.result = lastOp'.arg.impl.on_load
          /\ lastOp'.result.ok
               => /\ plugins' # <<>>
                  /\ plugin(plugins'[Len(plugins')]).id = nextId
                  /\ name(plugin(plugins'[Len(plugins')])) = lastOp'.arg.impl.name]_vars

\* A declared plugin named "other" has just been registered.
C20_Witness ==
    /\ lastOp.op = "load_plugin"
    /\ lastOp.arg \in Declared
    /\ lastOp.result.ok
    /\ name(plugin(plugins[Len(plugins)])) = "other"
    /\ plugin(plugins[Len(plugins)]).id = nextId - 1

RECURSIVE OneAtATime(_)
\* Handle by handle: on_unload, the plugin destroyed, the library released.
OneAtATime(s) ==
    IF s = <<>> THEN <<>>
    ELSE LET h == Head(s)
         IN  <<Ev("on_unload", plugin(h).id), Ev("drop plugin", plugin(h).id)>>
             \o (IF h.type = "Dynamic"
                 THEN <<Ev("drop library", h.library)>> ELSE <<>>)
             \o OneAtATime(Tail(s))

\* C21: a drain (unload or drop) goes through the handles one at a time in
\* load order: for each handle on_unload is invoked, then its plugin is
\* destroyed, then its library is released, all before on_unload is invoked
\* on the next handle; the registry is empty when the drain is over (a drain
\* that aborts the process is never over).
C21_DrainOneAtATime ==
    [][((UnloadStep \/ DropStep) /\ mgr' # "aborted")
       => /\ trace' = OneAtATime(plugins)
          /\ plugins' = <<>>]_vars

C23_MissingCreateRejected ==
    [][(/\ LoadPluginStep
        /\ lastOp'.arg.exists
        /\ lastOp'.arg.symbols = {"_rustc_version", "_package_version"}
        /\ lastOp'.arg.rustc = RUSTC_VERSION
        /\ lastOp'.arg.package = PACKAGE_VERSION)
       => /\ lastOp'.result = Err(<<"libloading::Error", "get", "_plugin_create">>)
          /\ EvIds(trace', "_rustc_version") = <<nextId>>
          /\ EvIds(trace', "_package_version") = <<nextId>>
          /\ EvSet(trace', "_plugin_create") = {}
          /\ EvSet(trace', "on_load") = {}
          /\ alive' = alive
          /\ registered' = registered
          /\ plugins' = plugins]_vars

\* With one plugin registered, a library with matching versions and no
\* _plugin_create has just been rejected.
C23_Witness ==
    /\ lastOp.op = "load_plugin"
    /\ lastOp.arg.exists
    /\ lastOp.arg.symbols = {"_rustc_version", "_package_version"}
    /\ lastOp.arg.rustc = RUSTC_VERSION
    /\ lastOp.arg.package = PACKAGE_VERSION
    /\ ~lastOp.result.ok
    /\ Len(plugins) = 1

\* C24: the registry is append-only between drains.  A successful load
\* appends one handle and a failed load or plugins() leaves the registry as
\* it was, neither destroying a registered plugin; only a drain removes
\* handles, all of them, destroying their plugins in load order.  So the
\* registry holds as many handles as were registered since the last drain,
\* the registered plugins that still exist.
C24_AppendOnlyBetweenDrains ==
    /\ [](mgr # "aborted" => Len(plugins) = Cardinality(registered \cap alive))
    /\ [][mgr' # "aborted"
          => /\ (LoadPluginStep \/ LoadStaticStep) /\ lastOp'.result.ok
                  => /\ Len(plugins') = Len(plugins) + 1
                     /\ SubSeq(plugins', 1, Len(plugins)) = plugins
             /\ (LoadPluginStep \/ LoadStaticStep) /\ ~lastOp'.result.ok
                  => plugins' = plugins
             /\ lastOp'.op = "plugins" => plugins' = plugins
             /\ ~(UnloadStep \/ DropStep)
                  => EvSet(trace', "drop plugin") \cap registered = {}
             /\ (UnloadStep \/ DropStep)
                  => /\ plugins' = <<>>
                     /\ EvIds(trace', "drop plugin") = Ids(plugins)]_vars

\* Two plugins were registered and drained by unload, then a third was
\* registered: the registry holds the third alone.
C24_Witness ==
    /\ nUnloads = 1
    /\ lastOp.op \in {"load_plugin", "load_static_plugin"}
    /\ lastOp.result.ok
    /\ Cardinality(registered) = 3
    /\ Ids(plugins) = <<2>>

\* The registry holds two plugins of the same name.
SameNameTwice(s) ==
    \E i, j \in 1..Len(s) : i # j /\ name(plugin(s[i])) = name(plugin(s[j]))

RegisteredNames == {name(plugin(plugins[i])) : i \in 1..Len(plugins)}

\* C25: names need not be unique.  Loading a plugin whose name is that of a
\* registered plugin succeeds (its library conforming, its on_load
\* succeeding) and appends it; plugins() yields both, in load order; and at
\* a drain each of them receives its own on_unload.
C25_DuplicateNamesAllowed ==
    [][/\ (/\ LoadPluginStep
           /\ lastOp'.arg \in Declared
           /\ lastOp'.arg.impl.on_load.ok
           /\ lastOp'.arg.impl.name \in RegisteredNames)
          => /\ lastOp'.result.ok
             /\ plugins' = Append(plugins, plugins'[Len(plugins')])
             /\ name(plugin(plugins'[Len(plugins')])) = lastOp'.arg.impl.name
       /\ (/\ LoadStaticStep
           /\ lastOp'.arg.on_load.ok
           /\ lastOp'.arg.name \in RegisteredNames)
          => /\ lastOp'.result.ok
             /\ plugins' = Append(plugins, plugins'[Len(plugins')])
             /\ name(plugin(plugins'[Len(plugins')])) = lastOp'.arg.name
       /\ (lastOp'.op = "plugins" /\ SameNameTwice(plugins))
          => lastOp'.result = [i \in 1..Len(plugins) |-> name(plugin(plugins[i]))]
       /\ (/\ UnloadStep \/ DropStep
           /\ mgr' # "aborted"
           /\ SameNameTwice(plugins))
          => EvIds(trace', "on_unload") = Ids(plugins)]_vars

\* The libraries owned by the handles of the registry.
OwnedLibraries ==
    {plugins[i].library : i \in {j \in 1..Len(plugins) : plugins[j].type = "Dynamic"}}

\* C27: a load_plugin that fails after opening the library (missing symbol,
\* rustc or package mismatch, on_load failure) has released that library
\* when it returns, as the last thing it did; and in a running process the
\* loaded libraries are those owned by the Dynamic handles of the registry.
C27_FailedLoadReleasesLibrary ==
    /\ mgr # "aborted" => loaded = OwnedLibraries
    /\ (lastOp.op = "load_plugin" /\ ~lastOp.result.ok)
          => /\ nextId - 1 \notin loaded
             /\ lastOp.arg.exists
                  => /\ EvIds(trace, "Library::new") = <<nextId - 1>>
                     /\ trace[Len(trace)] = Ev("drop library", nextId - 1)

\* A Dynamic and a Static plugin are registered and a load_plugin has just
\* failed on the on_load of its plugin: the first library alone is loaded.
C27_Witness ==
    /\ lastOp.op = "load_plugin"
    /\ lastOp.arg.exists
    /\ ~lastOp.result.ok
    /\ EvSet(trace, "on_load") # {}
    /\ Len(plugins) = 2
    /\ loaded = {0}

\* C28: the manager stays usable after unload.  unload leaves the registry
\* as that of a new manager; a load made after an unload registers its
\* plugin as it would on a new manager; the registry, and so plugins(),
\* never holds a plugin that was drained; and a drain invokes on_unload
\* only on plugins of the registry, never on one that received it before.
C28_UsableAfterUnload ==
    /\ [](mgr = "live"
          => Range(Ids(plugins)) \cap (Range(unloadCalls) \cup (registered \ alive)) = {})
    /\ [][/\ UnloadStep => plugins' = new
          /\ (/\ nUnloads >= 1
              /\ LoadPluginStep
              /\ lastOp'.arg \in Declared
              /\ lastOp'.arg.impl.on_load.ok)
             => /\ lastOp'.result.ok
                /\ plugins' = Append(plugins, Dynamic(Instance(lastOp'.arg.impl, nextId), nextId))
          /\ (/\ nUnloads >= 1
              /\ LoadStaticStep
              /\ lastOp'.arg.on_load.ok)
             => /\ lastOp'.result.ok
                /\ plugins' = Append(plugins, Static(Instance(lastOp'.arg, nextId)))
          /\ (/\ nUnloads >= 1
              /\ lastOp'.op = "plugins")
             => /\ Len(lastOp'.result) = Len(plugins)
                /\ Range(Ids(plugins)) \cap Range(unloadCalls) = {}
          /\ (/\ nUnloads >= 1
              /\ UnloadStep \/ DropStep)
             => /\ EvSet(trace', "on_unload") \subseteq Range(Ids(plugins))
                /\ EvSet(trace', "on_unload") \cap Range(unloadCalls) = {}
                /\ \A id \in Range(unloadCalls') : Count(unloadCalls', id) = 1]_vars

\* Plugin 0 was registered and unloaded, plugin 1 was registered after that
\* and a second unload has just invoked on_unload on plugin 1 alone.
C28_Witness ==
    /\ nUnloads = 2
    /\ lastOp.op = "unload"
    /\ unloadCalls = <<0, 1>>
    /\ EvIds(trace, "on_unload") = <<1>>
    /\ plugins = <<>>

\* C26: a thread inside load_plugin, load_static_plugin or unload is alone
\* with the manager: no other thread is inside one of them or holds the
\* iterator of plugins() or a reference it yielded.  So a trigger or name
\* call made through such a reference is made on a plugin that exists, that
\* has not received on_unload and that is not inside on_unload.  Trigger
\* calls of several threads do overlap (C26_Witness).
C26_LifecycleExclusive ==
    /\ \A t, u \in Threads :
         (t # u /\ threads[t].borrow = "mut") => threads[u] = Idle
    /\ \A t \in Threads :
         (threads[t].op = "plugins" /\ threads[t].call # <<>>)
            => LET id == threads[t].call[2] IN
               /\ id \in alive
               /\ id \notin Range(unloadCalls)
               /\ id \in Range(Ids(plugins))
               /\ \A u \in Threads : threads[u].call # <<"on_unload", id>>

\* After an unload, both threads are inside trigger on the same plugin.
C26_Witness ==
    /\ nUnloads >= 1
    /\ \E id \in alive : \A t \in Threads : threads[t].call = <<"trigger", id>>

====
